---------------------------- MODULE Spec2Model ----------------------------
(***************************************************************************)
(* A model of lib-collect.py (PyLibPro): the catalog of ML libraries, the  *)
(* size calculator, the installer and the interactive menu loop of         *)
(* MLLibraryManager, with main()'s top-level exception handlers.           *)
(*                                                                         *)
(* Text that the program parses (the catalog's size strings, the lines     *)
(* read from standard input, the category keys) is modelled as a sequence  *)
(* of one-character strings, so that lower(), replace(), int(), float(),   *)
(* slicing and string equality are computed as Python computes them.       *)
(* Text that the program only prints is a TLA+ string.                     *)
(***************************************************************************)
EXTENDS Integers, Sequences, FiniteSets, TLC

VARIABLES
    pc,         \* where control is: a prompt of run(), inside install_libraries, or ended
    choice,     \* run()'s `choice`: the main-menu branch control is in ("" at the top)
    category,   \* run()'s `category`: the catalog key chosen in the category menu
    selection,  \* the set of names handed (or about to be handed) to install_libraries
    pending,    \* install_libraries: the names of `selected` the for loop has not reached
    attempted,  \* per name, the pip invocations made for it since the last line was read
    failed,     \* how many of those invocations raised an exception install_libraries caught
    line,       \* the line input() has returned and the loop has not yet acted on
    size,       \* the size text computed for the confirmation prompt
    console,    \* what the last step printed to standard output
    raised,     \* the exception the last step raised ("" when none)
    log         \* the records emitted through the logging module

vars == <<pc, choice, category, selection, pending, attempted, failed, line, size,
          console, raised, log>>

-----------------------------------------------------------------------------
(* Python string operations, on sequences of characters *)

\* str.lower(), for the characters the program meets
LowerChar(c) ==
    CASE c = "G" -> "g"
      [] c = "B" -> "b"
      [] c = "M" -> "m"
      [] c = "Y" -> "y"
      [] c = "N" -> "n"
      [] c = "A" -> "a"
      [] OTHER -> c

Lower(s) == [i \in 1..Len(s) |-> LowerChar(s[i])]

\* `sub in s`
Contains(s, sub) ==
    \E i \in 1..(Len(s) - Len(sub) + 1) : SubSeq(s, i, i + Len(sub) - 1) = sub

\* s.replace(old, new) for a non-empty old: leftmost non-overlapping occurrences
RECURSIVE Replace(_, _, _)
Replace(s, old, new) ==
    IF Len(s) < Len(old) THEN s
    ELSE IF SubSeq(s, 1, Len(old)) = old
         THEN new \o Replace(SubSeq(s, Len(old) + 1, Len(s)), old, new)
         ELSE <<s[1]>> \o Replace(Tail(s), old, new)

Digits == {"0", "1", "2", "3", "4", "5", "6", "7", "8", "9"}

DigitVal(c) ==
    CASE c = "0" -> 0 [] c = "1" -> 1 [] c = "2" -> 2 [] c = "3" -> 3
      [] c = "4" -> 4 [] c = "5" -> 5 [] c = "6" -> 6 [] c = "7" -> 7
      [] c = "8" -> 8 [] c = "9" -> 9

RECURSIVE DecimalValue(_)
DecimalValue(s) ==
    IF s = <<>> THEN 0
    ELSE 10 * DecimalValue(SubSeq(s, 1, Len(s) - 1)) + DigitVal(s[Len(s)])

IsSpace(c) == c = " "

RECURSIVE LStrip(_)
LStrip(s) == IF s # <<>> /\ IsSpace(s[1]) THEN LStrip(Tail(s)) ELSE s

RECURSIVE RStrip(_)
RStrip(s) ==
    IF s # <<>> /\ IsSpace(s[Len(s)]) THEN RStrip(SubSeq(s, 1, Len(s) - 1)) ELSE s

Strip(s) == RStrip(LStrip(s))

\* Digit groups separated by single underscores ("1_0" is 10; "_1", "1_", "1__0" are not numbers)
DigitGroups(s) ==
    /\ s # <<>>
    /\ \A i \in 1..Len(s) : s[i] \in Digits \/ s[i] = "_"
    /\ s[1] # "_" /\ s[Len(s)] # "_"
    /\ \A i \in 1..(Len(s) - 1) : ~(s[i] = "_" /\ s[i + 1] = "_")

\* int(s): surrounding whitespace, an optional sign, decimal digits; else ValueError
int(s) ==
    LET t == Strip(s)
        signed == t # <<>> /\ t[1] \in {"+", "-"}
        body == IF signed THEN Tail(t) ELSE t
        mag == DecimalValue(Replace(body, <<"_">>, <<>>))
    IN IF DigitGroups(body)
       THEN [ok |-> TRUE, val |-> IF signed /\ t[1] = "-" THEN 0 - mag ELSE mag]
       ELSE [ok |-> FALSE, val |-> 0]

\* float(s) for the catalog's numerals, which are all unsigned whole numbers
float(s) ==
    LET t == Strip(s)
    IN IF t # <<>> /\ \A i \in 1..Len(t) : t[i] \in Digits
       THEN [ok |-> TRUE, val |-> DecimalValue(t)]
       ELSE [ok |-> FALSE, val |-> 0]

\* The characters of s as one printed string
RECURSIVE Text(_)
Text(s) == IF s = <<>> THEN "" ELSE s[1] \o Text(Tail(s))

-----------------------------------------------------------------------------
(* The catalog: self.libraries, an ordered dict of ordered dicts *)

libraries == <<
    [key |-> <<"1", "_", "core_frameworks">>,
     items |-> << <<"tensorflow",   <<"~", "2", "G", "B">> >>,
                  <<"torch",        <<"~", "4", "G", "B">> >>,
                  <<"scikit-learn", <<"~", "3", "0", "0", "M", "B">> >>,
                  <<"keras",        <<"~", "1", "0", "0", "M", "B">> >>,
                  <<"jax",          <<"~", "6", "0", "0", "M", "B">> >>,
                  <<"xgboost",      <<"~", "2", "0", "0", "M", "B">> >> >>],
    [key |-> <<"2", "_", "visualization">>,
     items |-> << <<"matplotlib",   <<"~", "5", "0", "M", "B">> >>,
                  <<"plotly",       <<"~", "1", "0", "0", "M", "B">> >>,
                  <<"seaborn",      <<"~", "2", "0", "M", "B">> >>,
                  <<"bokeh",        <<"~", "8", "0", "M", "B">> >>,
                  <<"altair",       <<"~", "3", "0", "M", "B">> >> >>],
    [key |-> <<"3", "_", "nlp">>,
     items |-> << <<"transformers", <<"~", "5", "G", "B">> >>,
                  <<"spacy",        <<"~", "1", "G", "B">> >>,
                  <<"nltk",         <<"~", "5", "0", "0", "M", "B">> >>,
                  <<"gensim",       <<"~", "2", "0", "0", "M", "B">> >>,
                  <<"sentence-transformers", <<"~", "1", "G", "B">> >> >>] >>

\* list(self.libraries.keys())
keys == [i \in 1..Len(libraries) |-> libraries[i].key]

\* `category in self.libraries`
InLibraries(k) == \E i \in 1..Len(libraries) : libraries[i].key = k

\* list(self.libraries[category].items())
items(k) == libraries[CHOOSE i \in 1..Len(libraries) : libraries[i].key = k].items

\* a mutation of category_keys: the first entry of the category is skipped
category_keys_SkipFirst(k) == {items(k)[i][1] : i \in 2..Len(items(k))}

\* set(self.libraries[category].keys())
category_keys(k) == {items(k)[i][1] : i \in 1..Len(items(k))}

\* the entries of every category, in the order the nested for loops visit them
RECURSIVE Flatten(_)
Flatten(cats) == IF cats = <<>> THEN <<>> ELSE Head(cats).items \o Flatten(Tail(cats))

Entries == Flatten(libraries)

CatalogNames == {Entries[i][1] : i \in 1..Len(Entries)}

\* the place of each name in the catalog
Position == [l \in CatalogNames |-> CHOOSE i \in 1..Len(Entries) : Entries[i][1] = l]

-----------------------------------------------------------------------------
(* calculate_size *)

\* the megabytes of one size string (lines 207-211)
SizeMb(size_text) ==
    LET size_str == Lower(size_text)
    IN IF Contains(size_str, <<"g", "b">>)
       THEN float(Replace(Replace(size_str, <<"~">>, <<>>), <<"g", "b">>, <<>>)).val * 1024
       ELSE float(Replace(Replace(size_str, <<"~">>, <<>>), <<"m", "b">>, <<>>)).val

\* total_mb after the two nested loops (lines 203-212)
RECURSIVE TotalMb(_, _)
TotalMb(entries, libs) ==
    IF entries = <<>> THEN 0
    ELSE (IF Head(entries)[1] \in libs THEN SizeMb(Head(entries)[2]) ELSE 0)
         + TotalMb(Tail(entries), libs)

\* f"{num/den:.1f}": the quotient to one decimal, round-half-to-even (exact here: den is 1024)
FormatOneDecimal(num, den) ==
    LET q == (num * 10) \div den
        r == (num * 10) % den
        tenths == IF 2 * r > den \/ (2 * r = den /\ q % 2 = 1) THEN q + 1 ELSE q
    IN ToString(tenths \div 10) \o "." \o ToString(tenths % 10)

\* f"{n:.0f}" of a whole number
FormatWhole(n) == ToString(n)

\* a mutation of SizeText: gigabytes from 1024 MB on, not above 1024 MB
SizeText_AtLeast(total_mb) ==
    IF total_mb >= 1024
    THEN "~" \o FormatOneDecimal(total_mb, 1024) \o "GB"
    ELSE "~" \o FormatWhole(total_mb) \o "MB"

SizeText(total_mb) ==
    IF total_mb > 1024
    THEN "~" \o FormatOneDecimal(total_mb, 1024) \o "GB"
    ELSE "~" \o FormatWhole(total_mb) \o "MB"

calculate_size(libs) == SizeText(TotalMb(Entries, libs))

calculate_category_size(k) == calculate_size(category_keys(k))

-----------------------------------------------------------------------------
(* Exceptions and the try statements that catch them *)

\* issubclass(exc, cls), for the exception classes that occur
IsSubclass(exc, cls) ==
    CASE cls = "BaseException" -> TRUE
      [] cls = "Exception" -> exc # "KeyboardInterrupt"
      [] OTHER -> exc = cls

\* a mutation of InstallHandlers: the generic except clause is missing
InstallHandlers_NoGeneric ==
    << [cls |-> "CalledProcessError", msg |-> "Error installing "] >>

\* a mutation of InstallHandlers: the generic clause is a bare except
InstallHandlers_Bare ==
    << [cls |-> "CalledProcessError", msg |-> "Error installing "],
       [cls |-> "BaseException", msg |-> "Unexpected error installing "] >>

\* the except clauses, in order, of the try in install_libraries
InstallHandlers ==
    << [cls |-> "CalledProcessError", msg |-> "Error installing "],
       [cls |-> "Exception", msg |-> "Unexpected error installing "] >>

\* a mutation of LibraryHandlers: the library menu has no try
LibraryHandlers_None == << >>

\* the except clause of the try in the library menu
LibraryHandlers == << [cls |-> "ValueError", msg |-> "Invalid input"] >>

\* the except clauses of the try in main()
MainHandlers ==
    << [cls |-> "KeyboardInterrupt", msg |-> "Operation cancelled by user"],
       [cls |-> "Exception", msg |-> "Unexpected error: "] >>

Catches(handlers, exc) == \E i \in 1..Len(handlers) : IsSubclass(exc, handlers[i].cls)

\* the message of the first except clause that matches
Handler(handlers, exc) ==
    handlers[CHOOSE i \in 1..Len(handlers) :
                /\ IsSubclass(exc, handlers[i].cls)
                /\ \A j \in 1..(i - 1) : ~IsSubclass(exc, handlers[j].cls)].msg

\* what subprocess.check_call can do: return, or raise one of these
Outcomes == {"", "CalledProcessError", "OSError", "KeyboardInterrupt"}

-----------------------------------------------------------------------------
(* Input lines *)

MaxLineLen == 2

OrderWindow == 2

Alphabet == {"0", "1", "2", "3", "4", "5", "6", "7", "-", " ", "n", "y", "Y"}

RECURSIVE LinesOfLen(_)
LinesOfLen(n) ==
    IF n = 0 THEN {<<>>}
    ELSE {Append(l, c) : l \in LinesOfLen(n - 1), c \in Alphabet}

Lines == UNION {LinesOfLen(n) : n \in 0..MaxLineLen}

Prompts == {"MainMenu", "CategoryMenu", "LibraryMenu", "Confirm"}

-----------------------------------------------------------------------------
(* The interactive loop *)

NoAttempts == [l \in CatalogNames |-> 0]

Init ==
    /\ pc = "MainMenu"
    /\ choice = ""
    /\ category = <<>>
    /\ selection = {}
    /\ pending = {}
    /\ attempted = NoAttempts
    /\ failed = 0
    /\ line = <<>>
    /\ size = ""
    /\ console = <<>>
    /\ raised = ""
    /\ log = <<>>

\* a mutation of MenuOf: the individual-library branch falls back to the category menu
MenuOf_Up(c) ==
    CASE c = "2" -> "CategoryMenu"
      [] c = "3" -> "CategoryMenu"
      [] OTHER -> "MainMenu"

\* the menu a branch of run() loops in
MenuOf(c) ==
    CASE c = "2" -> "CategoryMenu"
      [] c = "3" -> "LibraryMenu"
      [] OTHER -> "MainMenu"

\* `choice` once control is back in that menu
ChoiceAt(c) == IF c = "1" THEN "" ELSE c

\* what is printed before input() blocks
Display ==
    CASE pc = "MainMenu" -> <<"display_menu", "Enter your choice (0-3): ">>
      [] pc = "CategoryMenu" -> <<"display_categories", "Select category (0-3): ">>
      [] pc = "LibraryMenu" -> <<"display_libraries", "Select library (0 to go back): ">>
      [] pc = "Confirm" /\ choice = "1" ->
            <<"Install all libraries? Total size: " \o size \o " (y/n): ">>
      [] pc = "Confirm" /\ choice = "2" ->
            <<"Install " \o Text(SubSeq(category, 3, Len(category)))
                \o "? Size: " \o size \o " (y/n): ">>
      [] OTHER ->
            <<"Install " \o (CHOOSE l \in selection : TRUE)
                \o "? Size: " \o size \o " (y/n): ">>

\* an exception leaves run() and reaches the try of main()
Terminate(exc) ==
    /\ pc' = "Exit"
    /\ raised' = exc
    /\ console' = IF Catches(MainHandlers, exc)
                  THEN <<Handler(MainHandlers, exc)>> ELSE <<"Traceback">>
    /\ line' = <<>>
    /\ UNCHANGED <<choice, category, selection, pending, attempted, failed, size, log>>

\* the menu or prompt is shown and input() returns a line
ReadLine(l) ==
    /\ pc \in Prompts
    /\ line = <<>>
    /\ line' = <<l>>
    /\ console' = Display
    /\ raised' = ""
    /\ attempted' = NoAttempts
    /\ failed' = 0
    /\ UNCHANGED <<pc, choice, category, selection, pending, size, log>>

\* end of input at a prompt: input() raises EOFError
EndOfInput ==
    /\ pc \in Prompts
    /\ line = <<>>
    /\ Terminate("EOFError")

\* Ctrl-C at a prompt: KeyboardInterrupt is raised in run()
Interrupt ==
    /\ pc \in Prompts
    /\ line = <<>>
    /\ Terminate("KeyboardInterrupt")

\* a mutation of Chose: the line is compared after stripping blanks
Chose_Stripped(l, c) == Strip(l) = <<c>>

\* `choice == "0"`, `cat_choice == "0"`, ...: equality with a one-character string
Chose(l, c) == l = <<c>>

\* lines 242-257, 270: the main menu acts on `choice`
MainChoice ==
    /\ pc = "MainMenu"
    /\ line # <<>>
    /\ LET l == line[1] IN
       IF Chose(l, "0") THEN
            /\ pc' = "Exit"
            /\ console' = <<"Exiting...">>
            /\ UNCHANGED <<choice, selection, size>>
       ELSE IF Chose(l, "1") THEN
            /\ pc' = "Confirm"
            /\ choice' = "1"
            /\ selection' = CatalogNames
            /\ size' = calculate_size(CatalogNames)
            /\ console' = <<>>
       ELSE IF Chose(l, "2") \/ Chose(l, "3") THEN
            /\ pc' = "CategoryMenu"
            /\ choice' = IF Chose(l, "2") THEN "2" ELSE "3"
            /\ console' = <<>>
            /\ UNCHANGED <<selection, size>>
       ELSE
            /\ console' = <<>>
            /\ UNCHANGED <<pc, choice, selection, size>>
    /\ line' = <<>>
    /\ raised' = ""
    /\ UNCHANGED <<category, pending, attempted, failed, log>>

\* lines 264 / 277: the key built from cat_choice, or the exception raised building it
CategoryOf(cat_choice) ==
    LET n == int(cat_choice)
        i == n.val - 1
        len == Len(keys)
    IN IF ~n.ok THEN [exc |-> "ValueError", key |-> <<>>]
       ELSE IF i >= len \/ i < 0 - len THEN [exc |-> "IndexError", key |-> <<>>]
       ELSE LET k == keys[(IF i < 0 THEN i + len ELSE i) + 1]
            IN [exc |-> "", key |-> cat_choice \o <<"_">> \o SubSeq(k, 3, Len(k))]

\* lines 261-268 and 274-278: the category menu acts on `cat_choice`
CategoryChoice ==
    /\ pc = "CategoryMenu"
    /\ line # <<>>
    /\ LET l == line[1]
           c == CategoryOf(l)
       IN
       IF Chose(l, "0") THEN
            /\ pc' = "MainMenu"
            /\ choice' = ""
            /\ console' = <<>>
            /\ line' = <<>>
            /\ raised' = ""
            /\ UNCHANGED <<category, selection, pending, attempted, failed, size, log>>
       ELSE IF c.exc # "" THEN
            Terminate(c.exc)
       ELSE IF InLibraries(c.key) THEN
            /\ category' = c.key
            /\ IF choice = "2"
               THEN /\ pc' = "Confirm"
                    /\ size' = calculate_category_size(c.key)
                    /\ UNCHANGED selection
               ELSE /\ pc' = "LibraryMenu"
                    /\ UNCHANGED <<size, selection>>
            /\ console' = <<>>
            /\ line' = <<>>
            /\ raised' = ""
            /\ UNCHANGED <<choice, pending, attempted, failed, log>>
       ELSE
            /\ console' = <<>>
            /\ line' = <<>>
            /\ raised' = ""
            /\ UNCHANGED <<pc, choice, category, selection, pending, attempted, failed, size, log>>

\* lines 281-291: the library menu acts on `lib_choice`
LibraryChoice ==
    /\ pc = "LibraryMenu"
    /\ line # <<>>
    /\ LET l == line[1]
           libs == items(category)
           n == int(l)
           idx == n.val - 1
       IN
       IF Chose(l, "0") THEN
            /\ pc' = "CategoryMenu"
            /\ category' = <<>>
            /\ console' = <<>>
            /\ line' = <<>>
            /\ raised' = ""
            /\ UNCHANGED <<choice, selection, pending, attempted, failed, size, log>>
       ELSE IF ~n.ok THEN
            IF Catches(LibraryHandlers, "ValueError") THEN
                /\ console' = <<Handler(LibraryHandlers, "ValueError")>>
                /\ line' = <<>>
                /\ raised' = "ValueError"
                /\ UNCHANGED <<pc, choice, category, selection, pending, attempted, failed, size, log>>
            ELSE Terminate("ValueError")
       ELSE IF 0 <= idx /\ idx < Len(libs) THEN
            /\ pc' = "Confirm"
            /\ selection' = {libs[idx + 1][1]}
            /\ size' = Text(libs[idx + 1][2])
            /\ console' = <<>>
            /\ line' = <<>>
            /\ raised' = ""
            /\ UNCHANGED <<choice, category, pending, attempted, failed, log>>
       ELSE
            /\ console' = <<>>
            /\ line' = <<>>
            /\ raised' = ""
            /\ UNCHANGED <<pc, choice, category, selection, pending, attempted, failed, size, log>>

\* a mutation of Affirmative: the answer is stripped before it is compared
Affirmative_Stripped(l) == Lower(Strip(l)) = <<"y">>

\* `input(...).lower() == 'y'`
Affirmative(l) == Lower(l) = <<"y">>

\* lines 254-255, 267-268, 288-289: the answer to a confirmation prompt
Confirm ==
    /\ pc = "Confirm"
    /\ line # <<>>
    /\ IF Affirmative(line[1]) THEN
            /\ pc' = "Installing"
            /\ selection' = IF choice = "2" THEN category_keys(category) ELSE selection
            /\ pending' = selection'
            /\ UNCHANGED choice
       ELSE
            /\ pc' = MenuOf(choice)
            /\ choice' = ChoiceAt(choice)
            /\ selection' = {}
            /\ UNCHANGED pending
    /\ category' = IF choice = "3" THEN category ELSE <<>>
    /\ size' = ""
    /\ console' = <<>>
    /\ line' = <<>>
    /\ raised' = ""
    /\ UNCHANGED <<attempted, failed, log>>

\* `for lib in selected` visits a set in an order the language leaves open: the next
\* name is any of the first OrderWindow names (in catalog order) not yet reached
NextNames(names) ==
    {l \in names : Cardinality({m \in names : Position[m] < Position[l]}) < OrderWindow}

\* lines 220-228: one pass of the for loop, on a name not yet reached
InstallOne(lib, outcome) ==
    /\ pc = "Installing"
    /\ lib \in NextNames(pending)
    /\ IF outcome = "" \/ Catches(InstallHandlers, outcome) THEN
            /\ console' = << "Installing " \o lib \o "...",
                             IF outcome = "" THEN "Successfully installed " \o lib
                             ELSE Handler(InstallHandlers, outcome) \o lib >>
            /\ raised' = outcome
            /\ attempted' = [attempted EXCEPT ![lib] = @ + 1]
            /\ failed' = IF outcome = "" THEN failed ELSE failed + 1
            /\ pending' = pending \ {lib}
            /\ line' = <<>>
            /\ IF pending' = {}
               THEN /\ pc' = MenuOf(choice)
                    /\ choice' = ChoiceAt(choice)
                    /\ selection' = {}
               ELSE UNCHANGED <<pc, choice, selection>>
            /\ UNCHANGED <<category, size, log>>
       ELSE
            /\ pc' = "Exit"
            /\ raised' = outcome
            /\ console' = << "Installing " \o lib \o "...",
                             IF Catches(MainHandlers, outcome)
                             THEN Handler(MainHandlers, outcome) ELSE "Traceback" >>
            /\ attempted' = [attempted EXCEPT ![lib] = @ + 1]
            /\ line' = <<>>
            /\ UNCHANGED <<choice, category, selection, pending, failed, size, log>>

Next ==
    \/ \E l \in Lines : ReadLine(l)
    \/ EndOfInput
    \/ Interrupt
    \/ MainChoice
    \/ CategoryChoice
    \/ LibraryChoice
    \/ Confirm
    \/ \E lib \in CatalogNames, outcome \in Outcomes : InstallOne(lib, outcome)

Spec == Init /\ [][Next]_vars

-----------------------------------------------------------------------------
(* calculate_size on its own: every set of catalog names and of one name   *)
(* the catalog does not hold                                               *)

SizeInputs == CatalogNames \cup {"numpy"}

InitSize ==
    /\ pc = "calculate_size"
    /\ selection \in SUBSET SizeInputs
    /\ choice = ""
    /\ category = <<>>
    /\ pending = {}
    /\ attempted = NoAttempts
    /\ failed = 0
    /\ line = <<>>
    /\ size = ""
    /\ console = <<>>
    /\ raised = ""
    /\ log = <<>>

Calculate ==
    /\ pc = "calculate_size"
    /\ size' = calculate_size(selection)
    /\ pc' = "calculated"
    /\ UNCHANGED <<choice, category, selection, pending, attempted, failed, line, console,
                   raised, log>>

NextSize == Calculate

SpecSize == InitSize /\ [][NextSize]_vars

-----------------------------------------------------------------------------
(* The catalog as the documentation states it, written out independently   *)
(* of the parsing above: the properties below compare the program to it    *)

RefKeys == << <<"1", "_", "core_frameworks">>,
              <<"2", "_", "visualization">>,
              <<"3", "_", "nlp">> >>

RefCategories ==
    << <<"tensorflow", "torch", "scikit-learn", "keras", "jax", "xgboost">>,
       <<"matplotlib", "plotly", "seaborn", "bokeh", "altair">>,
       <<"transformers", "spacy", "nltk", "gensim", "sentence-transformers">> >>

RefSizes ==
    { <<"tensorflow", 2, "GB">>, <<"torch", 4, "GB">>, <<"scikit-learn", 300, "MB">>,
      <<"keras", 100, "MB">>, <<"jax", 600, "MB">>, <<"xgboost", 200, "MB">>,
      <<"matplotlib", 50, "MB">>, <<"plotly", 100, "MB">>, <<"seaborn", 20, "MB">>,
      <<"bokeh", 80, "MB">>, <<"altair", 30, "MB">>,
      <<"transformers", 5, "GB">>, <<"spacy", 1, "GB">>, <<"nltk", 500, "MB">>,
      <<"gensim", 200, "MB">>, <<"sentence-transformers", 1, "GB">> }

RefNames(k) == {RefCategories[k][i] : i \in 1..Len(RefCategories[k])}

RefAll == UNION {RefNames(k) : k \in 1..Len(RefCategories)}

RefIndex(cat) == CHOOSE k \in 1..Len(RefKeys) : RefKeys[k] = cat

RefMenu(c) ==
    CASE c = "1" -> "MainMenu"
      [] c = "2" -> "CategoryMenu"
      [] c = "3" -> "LibraryMenu"

RECURSIVE RefSum(_)
RefSum(entries) ==
    IF entries = {} THEN 0
    ELSE LET e == CHOOSE e \in entries : TRUE
         IN (IF e[3] = "GB" THEN e[2] * 1024 ELSE e[2]) + RefSum(entries \ {e})

\* T of the claim: the megabytes of the catalog entries whose name is in S
RefTotal(S) == RefSum({e \in RefSizes : e[1] \in S})

Abs(x) == IF x < 0 THEN 0 - x ELSE x

\* T/1024 to one decimal: the nearest tenth, a tie going to the even tenth
RefTenths(T) ==
    CHOOSE t \in 0..((T * 10) \div 1024 + 1) :
        \/ 2 * Abs(T * 10 - t * 1024) < 1024
        \/ 2 * Abs(T * 10 - t * 1024) = 1024 /\ t % 2 = 0

RefSizeText(T) ==
    IF T > 1024
    THEN "~" \o ToString(RefTenths(T) \div 10) \o "." \o ToString(RefTenths(T) % 10) \o "GB"
    ELSE "~" \o ToString(T) \o "MB"

Count(f) == Cardinality({l \in DOMAIN f : f[l] > 0})

Once(S) == [l \in CatalogNames |-> IF l \in S THEN 1 ELSE 0]

YesLines == {<<"y">>, <<"Y">>}

MainLines == {<<"0">>, <<"1">>, <<"2">>, <<"3">>}

ValidLibraryIndex(cat, l) ==
    int(l).ok /\ int(l).val \in 1..Len(RefCategories[RefIndex(cat)])

-----------------------------------------------------------------------------
(* C1 *)

\* C1 (as claimed): in the category menu a line that is not "0" and not a valid
\* category number (out of range, or not a number) is rejected: the loop stays in
\* CategoryMenu, the process does not end and nothing is installed.
C1_InvalidCategoryReprompts ==
    [][(pc = "CategoryMenu" /\ line # <<>> /\ line[1] \notin MainLines)
        => (pc' = "CategoryMenu" /\ attempted' = attempted)]_vars

-----------------------------------------------------------------------------
(* C2 *)

\* C2: when install_libraries(S) returns, whatever mix of success, non-zero exit
\* (CalledProcessError) and unexpected exception the invocations met, every name
\* of S has been attempted exactly once and no other name has been attempted; and
\* while the batch runs no name is attempted twice.
C2_EveryNameAttemptedOnce ==
    [][/\ (pc = "Installing" /\ pc' # "Installing" /\ raised' # "KeyboardInterrupt")
            => attempted' = Once(selection)
       /\ (pc = "Installing")
            => \A l \in CatalogNames : attempted'[l] <= 1]_vars

\* a whole category was attempted although an earlier invocation of the batch failed
C2_Witness ==
    /\ pc = "CategoryMenu"
    /\ choice = "2"
    /\ Count(attempted) = 6
    /\ failed = 1
    /\ raised = ""

-----------------------------------------------------------------------------
(* C3 *)

\* C3 (as claimed): every name install_libraries has handled has a record of the
\* attempt and a record of its outcome in the log, a failure at error level.
C3_AttemptsAreLogged ==
    \A l \in CatalogNames :
        attempted[l] > 0 =>
            /\ \E i \in 1..Len(log) : log[i].lib = l /\ log[i].event = "attempt"
            /\ \E i \in 1..Len(log) :
                /\ log[i].lib = l
                /\ log[i].event = "outcome"
                /\ (raised # "" => log[i].level = "ERROR")

-----------------------------------------------------------------------------
(* C4 *)

\* C4: calculate_size(S) is the reference text of T, the megabytes of the catalog
\* entries named in S (GB entries times 1024, unknown names nothing): above 1024
\* it is "~" T/1024 to one decimal (nearest tenth, ties to even) "GB", otherwise
\* "~" T "MB"; so {} gives "~0MB", {tensorflow, scikit-learn} gives "~2.3GB" and
\* a total of exactly 1024 is rendered in MB.
C4_SizeMatchesReference ==
    pc = "calculated" =>
        /\ size = RefSizeText(RefTotal(selection))
        /\ (selection = {} => size = "~0MB")
        /\ (selection = {"tensorflow", "scikit-learn"} => size = "~2.3GB")
        /\ (RefTotal(selection) = 1024 => size = "~1024MB")

\* the total of exactly 1024 MB, with a name the catalog does not hold beside it
C4_Witness ==
    /\ pc = "calculated"
    /\ selection = {"spacy", "numpy"}
    /\ size = "~1024MB"

-----------------------------------------------------------------------------
(* C5 *)

\* C5: the set handed to install_libraries is the one the user chose, and holds
\* catalog names only: all libraries under option 1, the libraries of the k-th
\* category under option 2 with category choice k, the i-th library of the k-th
\* category under option 3 with category choice k and library choice i.
C5_SelectionIsTheChoice ==
    [][/\ (pc = "Confirm" /\ pc' = "Installing") =>
            /\ pending' = selection'
            /\ selection' \subseteq RefAll
            /\ (choice = "1" => selection' = RefAll)
            /\ (choice = "2" => selection' = RefNames(RefIndex(category)))
            /\ (choice = "3" => selection' = selection)
       /\ (pc = "CategoryMenu" /\ pc' \in {"Confirm", "LibraryMenu"}) =>
            /\ line[1] \in {<<"1">>, <<"2">>, <<"3">>}
            /\ category' = RefKeys[DigitVal(line[1][1])]
       /\ (pc = "LibraryMenu" /\ pc' = "Confirm") =>
            /\ ValidLibraryIndex(category, line[1])
            /\ selection' = {RefCategories[RefIndex(category)][int(line[1]).val]}
       /\ (pc \in {"Confirm", "LibraryMenu"} /\ pc' \in {"Confirm", "LibraryMenu"})
            => category' = category
       /\ (pc = "Installing" /\ pc' = "Installing") => selection' = selection]_vars

\* the fourth library of the first category, chosen under option 3, is being installed
C5_Witness ==
    /\ pc = "Installing"
    /\ choice = "3"
    /\ category = RefKeys[1]
    /\ pending = {"keras"}

-----------------------------------------------------------------------------
(* C6 *)

\* C6: after a confirmation prompt, answered yes or not and whatever the install
\* outcomes, the loop is back in the menu the choice was made in (MainMenu for
\* option 1, CategoryMenu for option 2, LibraryMenu of the same category for option
\* 3); "0" in LibraryMenu returns to CategoryMenu, "0" in CategoryMenu returns to
\* MainMenu, and under option 2 the loop never enters LibraryMenu.
C6_Navigation ==
    [][/\ (pc = "Confirm" /\ line # <<>> /\ pc' # "Installing") =>
            /\ pc' = RefMenu(choice)
            /\ (choice = "3" => category' = category)
       /\ (pc = "Installing" /\ pc' # "Installing" /\ raised' # "KeyboardInterrupt") =>
            /\ pc' = RefMenu(choice)
            /\ (choice = "3" => category' = category)
       /\ (pc = "LibraryMenu" /\ line = << <<"0">> >>) => pc' = "CategoryMenu"
       /\ (pc = "CategoryMenu" /\ line = << <<"0">> >>) => pc' = "MainMenu"
       /\ (choice = "2") => pc' # "LibraryMenu"]_vars

\* back in the library menu of the second category after an install that failed
C6_Witness ==
    /\ pc = "LibraryMenu"
    /\ choice = "3"
    /\ category = RefKeys[2]
    /\ Count(attempted) = 1
    /\ failed = 1

-----------------------------------------------------------------------------
(* C7 *)

\* C7 (as claimed): in LibraryMenu every line other than "0" that is not a valid
\* library index is reported as invalid, and the loop stays in LibraryMenu for the
\* same category with nothing installed.
C7_InvalidLibraryReported ==
    [][(pc = "LibraryMenu" /\ line # <<>> /\ line[1] # <<"0">>
            /\ ~ValidLibraryIndex(category, line[1]))
        => /\ pc' = "LibraryMenu"
           /\ category' = category
           /\ attempted' = attempted
           /\ console' = <<"Invalid input">>]_vars

\* C7 (amended): in LibraryMenu every line other than "0" that is not a valid
\* library index leaves the loop in LibraryMenu for the same category with nothing
\* installed; a line that is not a number is reported ("Invalid input"), a number
\* outside 1..n is ignored without any message.
C7_InvalidLibraryStays ==
    [][(pc = "LibraryMenu" /\ line # <<>> /\ line[1] # <<"0">>
            /\ ~ValidLibraryIndex(category, line[1]))
        => /\ pc' = "LibraryMenu"
           /\ category' = category
           /\ attempted' = attempted
           /\ console' = IF int(line[1]).ok THEN <<>> ELSE <<"Invalid input">>]_vars

\* the library menu of the third category has just reported a line that is no number
C7_Witness ==
    /\ pc = "LibraryMenu"
    /\ category = RefKeys[3]
    /\ raised = "ValueError"
    /\ console = <<"Invalid input">>

-----------------------------------------------------------------------------
(* C8 *)

\* C8: a KeyboardInterrupt, at a prompt or during an install invocation, is caught
\* by main() alone: the step that raises it ends the process with the cancellation
\* notice as the last thing printed, and once the process has ended nothing more is
\* attempted.
C8_InterruptEndsTheProcess ==
    [][/\ (raised' = "KeyboardInterrupt") =>
            /\ pc' = "Exit"
            /\ console'[Len(console')] = "Operation cancelled by user"
       /\ (pc = "Exit") => (pc' = "Exit" /\ attempted' = attempted)]_vars

\* the interrupt came during the third invocation of a batch that had more to do
C8_Witness ==
    /\ pc = "Exit"
    /\ raised = "KeyboardInterrupt"
    /\ Count(attempted) = 3
    /\ Cardinality(pending) >= 2

-----------------------------------------------------------------------------
(* C9 *)

\* C9: "0" at the main menu ends the process ("Exiting...") without an installer
\* invocation; nothing is read or attempted after Exit; any line other than "0",
\* "1", "2", "3" at the main menu leaves the loop in MainMenu with nothing attempted.
C9_MainMenuExit ==
    [][/\ (pc = "MainMenu" /\ line = << <<"0">> >>) =>
            /\ pc' = "Exit"
            /\ console' = <<"Exiting...">>
            /\ attempted' = attempted
       /\ (pc = "Exit") => (pc' = "Exit" /\ line' = line /\ attempted' = attempted)
       /\ (pc = "MainMenu" /\ line # <<>> /\ line[1] \notin MainLines) =>
            /\ pc' = "MainMenu"
            /\ attempted' = attempted]_vars

\* the process has ended on "0" at the main menu
C9_Witness ==
    /\ pc = "Exit"
    /\ console = <<"Exiting...">>
    /\ raised = ""

-----------------------------------------------------------------------------
(* C10 *)

\* C10: install_libraries is entered only from a confirmation prompt answered "y"
\* or "Y", with the selection that prompt was about; pip is invoked only inside
\* install_libraries; any other answer (the empty line included) attempts nothing.
C10_InstallOnlyAfterYes ==
    [][/\ (pc' = "Installing" /\ pc # "Installing") =>
            /\ pc = "Confirm"
            /\ line # <<>>
            /\ line[1] \in YesLines
            /\ pending' = selection'
            /\ (choice \in {"1", "3"} => selection' = selection)
            /\ (choice = "2" => selection' = RefNames(RefIndex(category)))
       /\ (\E l \in CatalogNames : attempted'[l] > attempted[l]) => pc = "Installing"
       /\ (pc = "Confirm" /\ line # <<>> /\ line[1] \notin YesLines) =>
            /\ pc' # "Installing"
            /\ attempted' = attempted]_vars

\* install_libraries has just been entered with the whole third category
C10_Witness ==
    /\ pc = "Installing"
    /\ choice = "2"
    /\ pending = selection
    /\ selection = RefNames(3)

=============================================================================
